---------------------------- MODULE Spec2Model ----------------------------
(***************************************************************************)
(* A model of cbox-rs (src/src/lib.rs): CBox<str> and CSemiBox<str>, two   *)
(* single-field wrappers around a raw C pointer, over a malloc/free heap   *)
(* of NUL-terminated byte buffers.  The wrapped type is str, the only      *)
(* DisposeRef implementation of the crate (lib.rs:101-103).                *)
(***************************************************************************)
EXTENDS Integers, Sequences, FiniteSets

\* ---------------------------------------------------------------- bounds
\* Number of addresses the foreign allocator can hand out.
NumAddr == 2
\* Longest input text, in bytes.
MaxLen == 2
\* Number of wrapper values the program creates in one run.
MaxWrap == 2

\* ------------------------------------------------------------- constants
\* The null pointer: malloc's failure sentinel, and a no-op for free.
NULL == 0
\* The value of a byte malloc has handed out and nobody has written yet.
Uninit == -1

\* Addresses of the malloc arena.
MallocAddr == 1..NumAddr
\* One address of memory that is live but was not produced by malloc: the
\* buffer of a std::ffi::CString (Rust's allocator), as a &CStr borrows it.
RustAddr == NumAddr + 1
AllAddr == 1..RustAddr
Ptr == {NULL} \cup AllAddr

\* Non-zero bytes of a text, and all bytes (0 is the terminator).
Chars == {1, 2}
Bytes == {0} \cup Chars
\* Every &str of at most MaxLen bytes; a &str may hold a zero byte.
TextsIn == UNION {[1..n -> Bytes] : n \in 0..MaxLen}
\* The texts with no interior zero byte.
ValidTexts == UNION {[1..n -> Chars] : n \in 0..MaxLen}
\* What a read through a null or dangling pointer is taken to find when it
\* does not fault: two representatives of "any bytes".
GarbageTexts == {<<>>, <<2>>}
\* The texts foreign code allocates.
ForeignTexts == {<<1>>}
\* The text the CString at RustAddr holds.
RustText == <<1>>

Slots == 1..MaxWrap

\* ------------------------------------------------------- pure functions
\* Whether a byte sequence holds a zero byte.
HasNul(s) == \E i \in 1..Len(s) : s[i] = 0

\* strlen: the number of bytes before the first zero byte (the length of the
\* sequence when it holds none: the read runs off the buffer).
RECURSIVE StrLenFrom(_, _)
StrLenFrom(s, i) ==
    IF i > Len(s) THEN Len(s)
    ELSE IF s[i] = 0 THEN i - 1
    ELSE StrLenFrom(s, i + 1)
StrLen(s) == StrLenFrom(s, 1)

\* CStr::from_ptr(p).to_bytes(): the bytes before the terminator.
ToBytes(buf) == SubSeq(buf, 1, StrLen(buf))

\* CString::new without the check for an interior zero byte.
CStringNewUnchecked(text) == [ok |-> TRUE, bytes |-> text \o <<0>>]

\* CString::new(text): an error when text holds a zero byte, else the bytes
\* followed by one terminator.
CStringNew(text) ==
    IF HasNul(text) THEN [ok |-> FALSE, bytes |-> <<>>]
    ELSE [ok |-> TRUE, bytes |-> text \o <<0>>]

\* The bytes strcpy writes: those of src up to and including its first zero.
StrcpyBytes(src) == SubSeq(src, 1, StrLen(src) + 1)

\* strcpy(dst, src) on a destination buffer: the written bytes replace the
\* first bytes of dst, the rest of dst is left as it was.
Strcpy(dst, src) ==
    [i \in 1..Len(dst) |->
        IF i <= Len(StrcpyBytes(src)) THEN StrcpyBytes(src)[i] ELSE dst[i]]

\* ------------------------------------------------------------------ heap
\* A block of memory: st is "never" (malloc has not handed the address out),
\* "live", "freed", or "rust" (live, owned by Rust's allocator); rel counts
\* the free() calls on the address since malloc last returned it.
NoBlock == [st |-> "never", buf |-> <<>>, rel |-> 0]

\* What malloc may return: the failure sentinel, or any address not in use.
MallocResults(m) == {NULL} \cup {a \in MallocAddr : m[a].st # "live"}

\* The heap after malloc(size) returned p.
MallocAt(m, p, size) ==
    IF p = NULL THEN m
    ELSE [m EXCEPT ![p] = [st |-> "live", buf |-> [i \in 1..size |-> Uninit],
                           rel |-> 0]]

\* Whether free(p) is undefined: p is neither null nor a live malloc block.
FreeUB(m, p) == p # NULL /\ m[p].st # "live"

\* The heap after free(p): a no-op on null, the block released otherwise.
Free(m, p) ==
    IF p = NULL THEN m
    ELSE IF m[p].st = "live"
         THEN [m EXCEPT ![p] = [st |-> "freed", buf |-> <<>>, rel |-> @.rel + 1]]
         ELSE [m EXCEPT ![p].rel = @ + 1]

\* DisposeRef::dispose, the default body: free(ptr).
Dispose(m, p) == Free(m, p)

\* Whether p points at readable NUL-terminated text.
Readable(m, p) == p # NULL /\ m[p].st \in {"live", "rust"} /\ HasNul(m[p].buf)

\* What reading the text at p can give: the text when p is readable, anything
\* (a fault, or any bytes) when it is not.
ReadOutcomes(m, p) ==
    IF Readable(m, p) THEN {[out |-> "ok", text |-> ToBytes(m[p].buf)]}
    ELSE {[out |-> "segv", text |-> <<>>]}
         \cup {[out |-> "ok", text |-> t] : t \in GarbageTexts}


\* ----------------------------------------------------------------- state
VARIABLES
    mem,     \* the heap: AllAddr -> block
    wr,      \* the wrapper values: Slots -> [kind, ptr, st, disp, by]
    view,    \* the borrowed CSemiBox view of each CBox: Slots -> [kind, ptr]
    owed,    \* raw pointers the caller holds and must release or hand on
    pc,      \* "run", "unwind" (a panic is unwinding), "crashed"
    misuse,  \* whether the caller ever broke the precondition of a wrap
    last     \* what the last operation was given, did and returned

vars == <<mem, wr, view, owed, pc, misuse, last>>

\* A wrapper value that does not exist yet.
NoWrapper ==
    [kind |-> "none", ptr |-> NULL, st |-> "unborn", disp |-> 0, by |-> "none"]
NoView == [kind |-> "none", ptr |-> NULL]

\* CBox::new / CSemiBox::new: the pointer stored as given, nothing checked.
\* by records which operation built the value ("new" unless it is reset).
CBoxNew(p) ==
    [kind |-> "CBox", ptr |-> p, st |-> "live", disp |-> 0, by |-> "new"]
CSemiBoxNew(p) ==
    [kind |-> "CSemiBox", ptr |-> p, st |-> "live", disp |-> 0, by |-> "new"]

\* The record of an operation, before its fields are filled in.
Rec(op) ==
    [op |-> op, w |-> 0, src |-> 0, ptr |-> NULL, text |-> <<>>, out |-> "ok",
     ub |-> "none", req |-> 0, mret |-> NULL, wrote |-> <<>>, ndisp |-> 0,
     nalloc |-> 0]

FreeSlots == {w \in Slots : wr[w].st = "unborn"}
\* The slot the next wrapper value takes.
NewSlot == CHOOSE w \in FreeSlots : \A v \in FreeSlots : w <= v

Live(w) == wr[w].st = "live"
Borrowed(w) == view[w].kind # "none"

Init ==
    /\ mem = [a \in AllAddr |->
                IF a = RustAddr
                THEN [st |-> "rust", buf |-> RustText \o <<0>>, rel |-> 0]
                ELSE NoBlock]
    /\ wr = [w \in Slots |-> NoWrapper]
    /\ view = [w \in Slots |-> NoView]
    /\ owed = {}
    /\ pc = "run"
    /\ misuse = FALSE
    /\ last = Rec("init")

\* ------------------------------------------------- allocating operations
\* A request with no room for the terminator.
FromSizeShort(text) == Len(text)

\* The number of bytes CBox::from(text) asks malloc for.
FromSize(text) == Len(text) + 1
\* The number of bytes clone asks malloc for, len being self.len().
CloneSize(len) == len + 1

\* A shallow clone: the new wrapper takes the pointer of the original.
CloneAlias(p, self) == CBoxNew(self.ptr)

\* The wrapper clone returns: CBox::new(ptr) of the new buffer.
CloneResult(p, self) == CBoxNew(p)

\* impl From<&str> for CBox<str>: CString::new(text).unwrap() panics on an
\* interior zero byte; then malloc(len + 1), strcpy into the result without
\* a null check, CBox::new.
From(text) ==
    /\ pc = "run"
    /\ FreeSlots # {}
    /\ LET c == CStringNew(text)
           r == [Rec("from") EXCEPT !.text = text, !.w = NewSlot]
       IN  IF ~c.ok
           THEN /\ pc' = "unwind"
                /\ last' = [r EXCEPT !.out = "panic", !.w = 0]
                /\ UNCHANGED <<mem, wr, view, owed, misuse>>
           ELSE \E p \in MallocResults(mem) :
                LET ra == [r EXCEPT !.req = FromSize(text), !.mret = p,
                                    !.nalloc = 1, !.ptr = p]
                IN  IF p = NULL
                    THEN \* strcpy(NULL, ..): undefined behaviour
                         \/ /\ pc' = "crashed"
                            /\ last' = [ra EXCEPT !.out = "segv", !.w = 0,
                                                  !.ub = "null_write"]
                            /\ UNCHANGED <<mem, wr, view, owed, misuse>>
                         \/ /\ wr' = [wr EXCEPT ![NewSlot] = CBoxNew(p)]
                            /\ last' = [ra EXCEPT !.ub = "null_write"]
                            /\ UNCHANGED <<mem, view, owed, pc, misuse>>
                    ELSE /\ mem' = [MallocAt(mem, p, FromSize(text)) EXCEPT
                                      ![p].buf = Strcpy(@, c.bytes)]
                         /\ wr' = [wr EXCEPT ![NewSlot] = CBoxNew(p)]
                         /\ last' = [ra EXCEPT !.wrote = StrcpyBytes(c.bytes)]
                         /\ UNCHANGED <<view, owed, pc, misuse>>

\* impl Clone for CBox<str>: malloc(self.len() + 1), strcpy(ptr, self.ptr)
\* without a null check, CBox::new.  self.len() and the copy read the text
\* at self.ptr, which is undefined when self.ptr is null or dangling.
Clone(w) ==
    /\ pc = "run"
    /\ Live(w) /\ wr[w].kind = "CBox"
    /\ FreeSlots # {}
    /\ \E rd \in ReadOutcomes(mem, wr[w].ptr) :
       LET r == [Rec("clone") EXCEPT !.src = w, !.w = NewSlot,
                    !.ub = IF Readable(mem, wr[w].ptr) THEN "none" ELSE "bad_read"]
       IN  IF rd.out = "segv"
           THEN /\ pc' = "crashed"
                /\ last' = [r EXCEPT !.out = "segv", !.w = 0]
                /\ UNCHANGED <<mem, wr, view, owed, misuse>>
           ELSE \E p \in MallocResults(mem) :
                LET size == CloneSize(Len(rd.text))
                    ra == [r EXCEPT !.text = rd.text, !.req = size, !.mret = p,
                                    !.nalloc = 1, !.ptr = p]
                IN  IF p = NULL
                    THEN \* strcpy(NULL, ..): undefined behaviour
                         \/ /\ pc' = "crashed"
                            /\ last' = [ra EXCEPT !.out = "segv", !.w = 0,
                                                  !.ub = "null_write"]
                            /\ UNCHANGED <<mem, wr, view, owed, misuse>>
                         \/ /\ wr' = [wr EXCEPT ![NewSlot] = CloneResult(p, wr[w])]
                            /\ last' = [ra EXCEPT !.ub = "null_write"]
                            /\ UNCHANGED <<mem, view, owed, pc, misuse>>
                    ELSE /\ mem' = [MallocAt(mem, p, size) EXCEPT
                                      ![p].buf = Strcpy(@, rd.text \o <<0>>)]
                         /\ wr' = [wr EXCEPT ![NewSlot] = CloneResult(p, wr[w])]
                         /\ last' = [ra EXCEPT !.wrote = StrcpyBytes(rd.text \o <<0>>)]
                         /\ UNCHANGED <<view, owed, pc, misuse>>

\* ------------------------------------------------------------- wrapping
\* The precondition of a wrap, which no constructor checks: the pointer is
\* null, or a malloc block the caller holds and hands over.
WrapOk(p) == p = NULL \/ p \in owed

\* The state after the wrapper value box, just built, took the pointer p.
Wrap(op, box, p) ==
    /\ pc = "run"
    /\ FreeSlots # {}
    /\ wr' = [wr EXCEPT ![NewSlot] = box]
    /\ owed' = owed \ {p}
    /\ misuse' = (misuse \/ ~WrapOk(p))
    /\ last' = [Rec(op) EXCEPT !.w = NewSlot, !.ptr = p]
    /\ UNCHANGED <<mem, view, pc>>

\* The pointers a caller can pass to a wrap: null, the pointers it holds, the
\* pointer of a live wrapper (as_ptr gives it) and the CString's buffer.
Known == {NULL, RustAddr} \cup owed \cup {wr[w].ptr : w \in {v \in Slots : Live(v)}}

\* CBox::new(ptr).
WrapCBox(p) == Wrap("CBox::new", CBoxNew(p), p)
\* CSemiBox::new(ptr).
WrapCSemiBox(p) == Wrap("CSemiBox::new", CSemiBoxNew(p), p)
\* impl From<*mut D::RefTo> for CSemiBox: CSemiBox::new(ptr).
SemiFromPtr(p) == Wrap("CSemiBox::from_ptr", CSemiBoxNew(p), p)
\* A conversion that does not take the text's address.
CStrAsPtrNull(a) == NULL

\* text.as_ptr() as *mut c_char: the address of the borrowed text itself.
CStrAsPtr(a) == a

\* impl From<&CStr> for CSemiBox<str>: CSemiBox::new(text.as_ptr()), text
\* being any readable NUL-terminated text, wherever it lives (a is its
\* address).  Nothing is allocated and nothing is copied.
SemiFromCStr(a) ==
    /\ Readable(mem, a)
    /\ Wrap("CSemiBox::from_cstr", [CSemiBoxNew(CStrAsPtr(a)) EXCEPT !.by = "cstr"], a)

\* ------------------------------------------------- consuming and teardown
\* No wrapper type implements Drop.
RunsDropNever(kind) == FALSE

\* Whether a wrapper type has a Drop implementation: CSemiBox has one
\* (lib.rs:58-64), CBox has none.
RunsDrop(kind) == kind = "CSemiBox"

\* unwrap without mem::forget: the consumed wrapper is dropped on return.
MemForgetMissing == FALSE

\* unwrap calls mem::forget(self): the consumed wrapper's Drop does not run.
MemForget == TRUE

\* The pointer unwrap returns.
UnwrapRet(box) == box.ptr

\* The heap and the wrapper after `n` runs of the wrapper's drop glue.
DropMem(w, runs) == IF runs THEN Dispose(mem, wr[w].ptr) ELSE mem
DropUB(w, runs) == runs /\ FreeUB(mem, wr[w].ptr)

\* CBox::unwrap / CSemiBox::unwrap: let ptr = self.ptr; mem::forget(self);
\* ptr.  The wrapper is consumed and the caller now holds the pointer.
Unwrap(w) ==
    /\ pc = "run"
    /\ Live(w) /\ ~Borrowed(w)
    /\ LET runs == ~MemForget /\ RunsDrop(wr[w].kind)
           ret == UnwrapRet(wr[w])
       IN  /\ wr' = [wr EXCEPT ![w].st = "unwrapped",
                               ![w].disp = IF runs THEN @ + 1 ELSE @]
           /\ mem' = DropMem(w, runs)
           /\ owed' = IF ret = NULL THEN owed ELSE owed \cup {ret}
           /\ last' = [Rec("unwrap") EXCEPT !.w = w, !.ptr = ret,
                          !.ndisp = IF runs THEN 1 ELSE 0]
           /\ UNCHANGED <<view, pc, misuse>>

\* The end of a wrapper's scope, by return (normal or early: the same drop
\* glue) or, while a panic unwinds, by unwinding.  A CSemiBox runs
\* Drop::drop, which calls dispose(self.ptr); a CBox has no Drop and runs
\* nothing.  free() of a pointer that is no live malloc block is undefined:
\* the allocator aborts, or the program goes on.
ScopeExit(w) ==
    /\ pc \in {"run", "unwind"}
    /\ Live(w) /\ ~Borrowed(w)
    /\ LET runs == RunsDrop(wr[w].kind)
           r == [Rec("scope_exit") EXCEPT !.w = w, !.ptr = wr[w].ptr,
                    !.out = IF pc = "unwind" THEN "unwound" ELSE "ok",
                    !.ndisp = IF runs THEN 1 ELSE 0,
                    !.ub = IF DropUB(w, runs) THEN "bad_free" ELSE "none"]
       IN  /\ wr' = [wr EXCEPT ![w].st = "dropped",
                               ![w].disp = IF runs THEN @ + 1 ELSE @]
           /\ mem' = DropMem(w, runs)
           /\ \/ /\ pc' = pc
                 /\ last' = r
              \/ /\ DropUB(w, runs)
                 /\ pc' = "crashed"
                 /\ last' = [r EXCEPT !.out = "abort"]
           /\ UNCHANGED <<view, owed, misuse>>

\* A panic stops unwinding at a catch_unwind frame; the wrappers of the
\* frames below it stay alive.
Catch ==
    /\ pc = "unwind"
    /\ pc' = "run"
    /\ last' = Rec("catch")
    /\ UNCHANGED <<mem, wr, view, owed, misuse>>

\* ------------------------------------------------------------ accessors
\* An accessor that loses the pointer.
AsPtrNull(box) == NULL

\* CBox::as_ptr / CSemiBox::as_ptr: self.ptr.
AsPtrRet(box) == box.ptr

AsPtr(w) ==
    /\ pc = "run"
    /\ Live(w)
    /\ last' = [Rec("as_ptr") EXCEPT !.w = w, !.ptr = AsPtrRet(wr[w])]
    /\ UNCHANGED <<mem, wr, view, owed, pc, misuse>>

\* A view built afresh instead of reinterpreted: it holds no pointer.
TransmuteFresh(box) == NULL

\* mem::transmute of &CBox<D> to &CSemiBox<D>: both are one pointer field,
\* so the view's ptr is the same bits.
Transmute(box) == box.ptr

\* A view returned by value: a CSemiBox that is dropped when it ends.
ViewEndDropsOwned == TRUE

\* as_semi and as_semi_mut return a reference: no value of type CSemiBox is
\* created, so no Drop runs when the view ends.
ViewEndDrops == FALSE

\* CBox::as_semi(&self) -> &CSemiBox.
AsSemi(w) ==
    /\ pc = "run"
    /\ Live(w) /\ wr[w].kind = "CBox" /\ ~Borrowed(w)
    /\ view' = [view EXCEPT ![w] = [kind |-> "shared", ptr |-> Transmute(wr[w])]]
    /\ last' = [Rec("as_semi") EXCEPT !.w = w, !.ptr = wr[w].ptr]
    /\ UNCHANGED <<mem, wr, owed, pc, misuse>>

\* CBox::as_semi_mut(&mut self) -> &mut CSemiBox.
AsSemiMut(w) ==
    /\ pc = "run"
    /\ Live(w) /\ wr[w].kind = "CBox" /\ ~Borrowed(w)
    /\ view' = [view EXCEPT ![w] = [kind |-> "mut", ptr |-> Transmute(wr[w])]]
    /\ last' = [Rec("as_semi_mut") EXCEPT !.w = w, !.ptr = wr[w].ptr]
    /\ UNCHANGED <<mem, wr, owed, pc, misuse>>

\* The end of the borrow as_semi / as_semi_mut returned.
ViewEnd(w) ==
    /\ pc \in {"run", "unwind"}
    /\ Borrowed(w)
    /\ view' = [view EXCEPT ![w] = NoView]
    /\ mem' = IF ViewEndDrops THEN Dispose(mem, view[w].ptr) ELSE mem
    /\ last' = [Rec("view_end") EXCEPT !.w = w, !.ptr = view[w].ptr,
                   !.ndisp = IF ViewEndDrops THEN 1 ELSE 0]
    /\ UNCHANGED <<wr, owed, pc, misuse>>

\* The address a dereference of CBox<T> resolves to: transmute(self.ptr).
BoxDerefTarget(box) == box.ptr
\* The address a dereference of CSemiBox<T> resolves to: self.ptr.into(),
\* the conversion being the reference at that address.
SemiDerefTarget(v) == v.ptr

\* impl Deref for CBox<str>: CStr::from_ptr(self.ptr).to_bytes() as a str.
\* Undefined when self.ptr is null or dangling.
Deref(w) ==
    /\ pc = "run"
    /\ Live(w) /\ wr[w].kind = "CBox"
    /\ \E rd \in ReadOutcomes(mem, BoxDerefTarget(wr[w])) :
        /\ pc' = IF rd.out = "segv" THEN "crashed" ELSE pc
        /\ last' = [Rec("deref") EXCEPT !.w = w, !.ptr = wr[w].ptr,
                       !.text = rd.text, !.out = rd.out,
                       !.ub = IF Readable(mem, wr[w].ptr) THEN "none"
                              ELSE "bad_read"]
    /\ UNCHANGED <<mem, wr, view, owed, misuse>>

\* impl Display / Debug for CBox<str>: fmt.write_str(self.deref()); the text
\* read is the text rendered.
Fmt(w) ==
    /\ pc = "run"
    /\ Live(w) /\ wr[w].kind = "CBox"
    /\ \E rd \in ReadOutcomes(mem, BoxDerefTarget(wr[w])) :
        /\ pc' = IF rd.out = "segv" THEN "crashed" ELSE pc
        /\ last' = [Rec("fmt") EXCEPT !.w = w, !.ptr = wr[w].ptr,
                       !.text = rd.text, !.out = rd.out,
                       !.ub = IF Readable(mem, wr[w].ptr) THEN "none"
                              ELSE "bad_read"]
    /\ UNCHANGED <<mem, wr, view, owed, misuse>>

\* The address Borrow::borrow and DerefMut::deref_mut of CBox<T> resolve
\* to: transmute(self.ptr).
BorrowTarget(box) == box.ptr

\* impl Borrow<T> for CBox<T>: a shared reference to the value at self.ptr.
Borrow(w) ==
    /\ pc = "run"
    /\ Live(w) /\ wr[w].kind = "CBox" /\ view[w].kind # "mut"
    /\ last' = [Rec("borrow") EXCEPT !.w = w, !.ptr = BorrowTarget(wr[w])]
    /\ UNCHANGED <<mem, wr, view, owed, pc, misuse>>

\* impl DerefMut for CBox<T>: a mutable reference to the value at self.ptr.
DerefMut(w) ==
    /\ pc = "run"
    /\ Live(w) /\ wr[w].kind = "CBox" /\ ~Borrowed(w)
    /\ last' = [Rec("deref_mut") EXCEPT !.w = w, !.ptr = BorrowTarget(wr[w])]
    /\ UNCHANGED <<mem, wr, view, owed, pc, misuse>>

\* Equality by address: the two pointers compared instead of the values.
EqByAddress(selfPtr, selfText, otherPtr, otherText) == selfPtr = otherPtr

\* PartialEq::eq: the value self dereferences to compared with other by the
\* wrapped type's own equality; the addresses take no part.
EqResult(selfPtr, selfText, otherPtr, otherText) == selfText = otherText

\* A comparison of the CBox v with the text the CBox w dereferences to.
\* Both dereferences are undefined on a null or dangling pointer.
Eq(v, w) ==
    /\ pc = "run"
    /\ v # w
    /\ Live(v) /\ wr[v].kind = "CBox"
    /\ Live(w) /\ wr[w].kind = "CBox"
    /\ \E a \in ReadOutcomes(mem, BoxDerefTarget(wr[v])),
          b \in ReadOutcomes(mem, BoxDerefTarget(wr[w])) :
        LET r == [Rec("eq") EXCEPT !.w = v, !.src = w, !.ptr = wr[v].ptr,
                     !.ub = IF Readable(mem, wr[v].ptr) /\ Readable(mem, wr[w].ptr)
                            THEN "none" ELSE "bad_read"]
        IN  IF a.out = "segv" \/ b.out = "segv"
            THEN /\ pc' = "crashed"
                 /\ last' = [r EXCEPT !.out = "segv"]
            ELSE /\ pc' = pc
                 /\ last' = [r EXCEPT !.text = a.text,
                                !.out = IF EqResult(wr[v].ptr, a.text,
                                                    wr[w].ptr, b.text)
                                        THEN "equal" ELSE "unequal"]
    /\ UNCHANGED <<mem, wr, view, owed, misuse>>

\* ------------------------------------------------------------ the caller
\* A write of one non-zero byte into the text of a live wrapper, through
\* the pointer as_ptr gave.
WriteByte(w, i, b) ==
    /\ pc = "run"
    /\ Live(w) /\ view[w].kind # "shared"
    /\ Readable(mem, wr[w].ptr) /\ mem[wr[w].ptr].st = "live"
    /\ i \in 1..StrLen(mem[wr[w].ptr].buf)
    /\ mem[wr[w].ptr].buf[i] # b
    /\ mem' = [mem EXCEPT ![wr[w].ptr].buf[i] = b]
    /\ last' = [Rec("write") EXCEPT !.w = w, !.ptr = wr[w].ptr, !.wrote = <<b>>]
    /\ UNCHANGED <<wr, view, owed, pc, misuse>>

\* Foreign code allocates a text with malloc and hands the caller the
\* pointer ("pointers made by C").
ForeignAlloc(t) ==
    /\ pc = "run"
    /\ \E p \in MallocResults(mem) \ {NULL} :
        /\ mem' = [MallocAt(mem, p, Len(t) + 1) EXCEPT ![p].buf = t \o <<0>>]
        /\ owed' = owed \cup {p}
        /\ last' = [Rec("foreign_alloc") EXCEPT !.ptr = p, !.text = t]
    /\ UNCHANGED <<wr, view, pc, misuse>>

\* steal_print: the consumer of a pointer the caller holds frees it, once.
StealPrint(p) ==
    /\ pc = "run"
    /\ p \in owed
    /\ mem' = Free(mem, p)
    /\ owed' = owed \ {p}
    /\ \/ /\ pc' = pc
          /\ last' = [Rec("steal_print") EXCEPT !.ptr = p,
                         !.ub = IF FreeUB(mem, p) THEN "bad_free" ELSE "none"]
       \/ /\ FreeUB(mem, p)
          /\ pc' = "crashed"
          /\ last' = [Rec("steal_print") EXCEPT !.ptr = p, !.out = "abort",
                         !.ub = "bad_free"]
    /\ UNCHANGED <<wr, view, misuse>>

\* ------------------------------------------------------- specification
Next ==
    \/ \E t \in TextsIn : From(t)
    \/ \E w \in Slots : Clone(w)
    \/ \E p \in Known : WrapCBox(p)
    \/ \E p \in Known : WrapCSemiBox(p)
    \/ \E p \in Known : SemiFromPtr(p)
    \/ \E a \in AllAddr : SemiFromCStr(a)
    \/ \E w \in Slots : Unwrap(w)
    \/ \E w \in Slots : ScopeExit(w)
    \/ Catch
    \/ \E w \in Slots : AsPtr(w)
    \/ \E w \in Slots : AsSemi(w)
    \/ \E w \in Slots : AsSemiMut(w)
    \/ \E w \in Slots : ViewEnd(w)
    \/ \E w \in Slots : Deref(w)
    \/ \E v, w \in Slots : Eq(v, w)
    \/ \E w \in Slots : Fmt(w)
    \/ \E w \in Slots : Borrow(w)
    \/ \E w \in Slots : DerefMut(w)
    \/ \E w \in Slots, i \in 1..MaxLen, b \in Chars : WriteByte(w, i, b)
    \/ \E t \in ForeignTexts : ForeignAlloc(t)
    \/ \E p \in AllAddr : StealPrint(p)

Spec == Init /\ [][Next]_vars

\* ---------------------------------------------------------------- claims
\* The wrappers of one kind.
OfKind(k) == {w \in Slots : wr[w].kind = k}
\* The wrapper the last operation returned, if it returned one.
Returned == last.w # 0

\* C1: a CBox that was never unwrapped and whose scope has ended had dispose
\* invoked exactly once on its pointer.
C1_OwnedDropDisposesOnce ==
    \A w \in OfKind("CBox") : wr[w].st = "dropped" => wr[w].disp = 1

\* C2: unwrap returns the pointer the wrapper held and consumes the wrapper,
\* which then never calls dispose; when the consumer of the returned pointer
\* has freed it once, the address has been released exactly once.  (The
\* count is per malloc block, for callers that wrap only pointers they own.)
C2_UnwrapHandsOff ==
    /\ \A w \in Slots : wr[w].st = "unwrapped" => wr[w].disp = 0
    /\ last.op = "unwrap" =>
          /\ wr[last.w].st = "unwrapped"
          /\ last.ptr = wr[last.w].ptr
          /\ last.ndisp = 0
          /\ last.ptr # NULL => last.ptr \in owed
    /\ ( /\ last.op = "steal_print"
         /\ ~misuse
         /\ \E w \in Slots : wr[w].st = "unwrapped" /\ wr[w].ptr = last.ptr )
       => /\ mem[last.ptr].st = "freed"
          /\ mem[last.ptr].rel = 1
          /\ last.ub = "none"

\* C2's case: a CBox made from text was unwrapped and the consumer freed
\* the pointer.
C2_Witness ==
    /\ last.op = "steal_print"
    /\ ~misuse
    /\ \E w \in OfKind("CBox") : wr[w].st = "unwrapped" /\ wr[w].ptr = last.ptr
    /\ \E w \in OfKind("CSemiBox") : wr[w].st = "unwrapped"

\* C3: a CSemiBox that is not unwrapped calls dispose exactly once, on its
\* pointer, when its scope ends (also by unwinding), and never otherwise.
C3_SemiDropDisposesOnce ==
    /\ \A w \in OfKind("CSemiBox") :
          /\ wr[w].st = "dropped" => wr[w].disp = 1
          /\ wr[w].st \in {"live", "unwrapped"} => wr[w].disp = 0
    /\ ( last.op = "scope_exit" /\ wr[last.w].kind = "CSemiBox" ) =>
          /\ last.ndisp = 1
          /\ last.ptr = wr[last.w].ptr
          /\ ( last.ptr \in MallocAddr /\ last.ub = "none" ) =>
                mem[last.ptr].st = "freed" /\ mem[last.ptr].rel = 1

\* C3's case: a CSemiBox over a live block left scope while a panic unwound.
C3_Witness ==
    /\ last.op = "scope_exit"
    /\ last.out = "unwound"
    /\ wr[last.w].kind = "CSemiBox"
    /\ last.ptr \in MallocAddr
    /\ last.ub = "none"

\* Every non-null pointer of a live wrapper is a live malloc block.
HeldPointersValid ==
    \A w \in Slots :
        ( Live(w) /\ wr[w].ptr # NULL ) =>
            wr[w].ptr \in MallocAddr /\ mem[wr[w].ptr].st = "live"

\* C4, as stated: in every state the public operations reach, the non-null
\* pointer of a live wrapper came from malloc and has not been freed.
C4_Original == HeldPointersValid

\* C4, amended: the same, for callers that pass the wrap operations only
\* null or a malloc block they own and hand over.
C4_HeldPointersValid == ~misuse => HeldPointersValid

\* C4's case: a wrapper made from borrowed text of a block the caller
\* owned, beside a second live wrapper.
C4_Witness ==
    /\ ~misuse
    /\ last.op = "CSemiBox::from_cstr"
    /\ \A w \in Slots : Live(w) /\ wr[w].ptr # NULL

\* No two live wrappers hold the same non-null pointer, and no malloc block
\* was released twice.
ExclusiveOwnership ==
    /\ \A v, w \in Slots :
          ( v # w /\ Live(v) /\ Live(w) /\ wr[v].ptr # NULL ) =>
              wr[v].ptr # wr[w].ptr
    /\ \A a \in MallocAddr : mem[a].rel <= 1

\* C5, as stated: in no reachable state do two live wrappers hold the same
\* non-null pointer, so no address is disposed by two wrappers.
C5_Original == ExclusiveOwnership

\* C5, amended: the same, for callers that pass the wrap operations only
\* null or a malloc block they own and hand over.
C5_ExclusiveOwnership == ~misuse => ExclusiveOwnership

\* C5's case: a clone and its original, both live.
C5_Witness ==
    /\ ~misuse
    /\ last.op = "clone"
    /\ Returned
    /\ Live(last.src) /\ Live(last.w)
    /\ wr[last.src].ptr # NULL /\ wr[last.w].ptr # NULL

\* C6: the wrapper clone returns holds a fresh live block, not the
\* original's, with the same text; no block has been released twice.
C6_CloneIndependent ==
    ( /\ ~misuse
      /\ last.op = "clone"
      /\ Returned
      /\ Readable(mem, wr[last.src].ptr) )
    => /\ wr[last.w].ptr # NULL
       /\ wr[last.w].ptr # wr[last.src].ptr
       /\ Readable(mem, wr[last.w].ptr)
       /\ ToBytes(mem[wr[last.w].ptr].buf) = ToBytes(mem[wr[last.src].ptr].buf)
       /\ \A a \in MallocAddr : mem[a].rel <= 1

\* C7: the wrapper CBox::from(text) returns for a text without a zero byte
\* reads back as exactly that text.
C7_RoundTrip ==
    ( last.op = "from" /\ ~HasNul(last.text) /\ Returned ) =>
        ReadOutcomes(mem, BoxDerefTarget(wr[last.w]))
            = {[out |-> "ok", text |-> last.text]}

\* C8, as stated: on a text with an embedded zero byte CBox::from reports a
\* recoverable error to its caller, which goes on, and returns no wrapper.
C8_Original ==
    ( last.op = "from" /\ HasNul(last.text) ) =>
        last.out = "err" /\ pc = "run" /\ ~Returned

\* C8, amended: on a text with an embedded zero byte CBox::from panics (the
\* stack unwinds) before it allocates, and returns no wrapper.
C8_EmbeddedNulPanics ==
    ( last.op = "from" /\ HasNul(last.text) ) =>
        /\ last.out = "panic"
        /\ pc = "unwind"
        /\ ~Returned
        /\ last.nalloc = 0

\* C8's case: a text whose zero byte follows a non-empty prefix.
C8_Witness ==
    /\ last.op = "from"
    /\ Len(last.text) = 2
    /\ last.text[1] # 0 /\ last.text[2] = 0

\* C9: when malloc returns null, from and clone end fatally and return no
\* wrapper holding the null pointer.
C9_AllocFailureIsFatal ==
    ( last.op \in {"from", "clone"} /\ last.nalloc = 1 /\ last.mret = NULL ) =>
        pc \in {"crashed", "unwind"} /\ ~Returned

TextOf(w) == ToBytes(mem[wr[w].ptr].buf)

\* C11: a comparison of two wrappers over readable text finds them equal
\* exactly when the two texts are equal, whatever the two addresses are.
C11_EqualityByValue ==
    ( /\ last.op = "eq"
      /\ Readable(mem, wr[last.w].ptr)
      /\ Readable(mem, wr[last.src].ptr) )
    => /\ last.out \in {"equal", "unequal"}
       /\ last.out = "equal" <=> TextOf(last.w) = TextOf(last.src)

\* C11's case: two wrappers over the same non-empty text at two different
\* addresses were compared and found equal.
C11_Witness ==
    /\ last.op = "eq"
    /\ ~misuse
    /\ Readable(mem, wr[last.w].ptr)
    /\ Readable(mem, wr[last.src].ptr)
    /\ wr[last.w].ptr # wr[last.src].ptr
    /\ TextOf(last.w) = TextOf(last.src)
    /\ Len(TextOf(last.w)) = 2
    /\ last.out = "equal"

\* C12: a CSemiBox built from a borrowed &CStr holds the address of that
\* text, with nothing allocated and nothing written; when it leaves scope,
\* dispose is called once, on that address.
C12_FromCStrWrapsAddress ==
    /\ \A w \in Slots : wr[w].by = "cstr" =>
          /\ wr[w].kind = "CSemiBox"
          /\ wr[w].ptr # NULL
          /\ mem[wr[w].ptr].st # "never"
    /\ last.op = "CSemiBox::from_cstr" =>
          /\ wr[last.w].by = "cstr" /\ Live(last.w)
          /\ wr[last.w].ptr = last.ptr
          /\ Readable(mem, last.ptr)
          /\ last.nalloc = 0 /\ last.wrote = <<>> /\ last.mret = NULL
    /\ ( last.op = "scope_exit" /\ wr[last.w].by = "cstr" ) =>
          /\ last.ndisp = 1 /\ wr[last.w].disp = 1
          /\ last.ptr = wr[last.w].ptr
          /\ mem[last.ptr].rel >= 1
          /\ last.ptr \in MallocAddr => mem[last.ptr].st = "freed"

\* C12's case: a CSemiBox built from the text of a block the caller owned
\* has left scope and the block is released.
C12_Witness ==
    /\ last.op = "scope_exit"
    /\ wr[last.w].by = "cstr"
    /\ ~misuse
    /\ last.ub = "none"
    /\ mem[last.ptr].st = "freed"

\* C13: for a text of n bytes, from and clone ask malloc for n + 1 bytes,
\* and the block malloc returned is n + 1 bytes long and holds what was
\* written: the n bytes of the text, none of them zero, then one zero byte,
\* and nothing else.  (For clone the text is the one self points at.)
C13_SizeAndTerminator ==
    ( /\ last.op \in {"from", "clone"}
      /\ last.nalloc = 1
      /\ last.op = "clone" => ( ~misuse /\ wr[last.src].ptr # NULL ) )
    => LET n == Len(last.text)
       IN  /\ last.req = n + 1
           /\ ~HasNul(last.text)
           /\ last.op = "clone" => last.text = TextOf(last.src)
           /\ last.mret # NULL =>
                 /\ Len(last.wrote) = n + 1
                 /\ last.wrote = last.text \o <<0>>
                 /\ mem[last.mret].buf = last.wrote
                 /\ Len(mem[last.mret].buf) = last.req
                 /\ StrLen(mem[last.mret].buf) = n

\* C13's case: a clone of a two-byte text into a block malloc returned.
C13_Witness ==
    /\ last.op = "clone"
    /\ ~misuse
    /\ last.mret # NULL
    /\ Len(last.text) = 2
    /\ last.req = 3

\* C14: the end of a view obtained by as_semi / as_semi_mut calls dispose
\* zero times and allocates nothing: the viewed block is as live after it as
\* before; and whatever the order of views, unwrap and scope ends, the
\* block a CBox holds or held has been released at most once.
C14_ViewEndDisposesNothing ==
    /\ last.op = "view_end" =>
          /\ last.ndisp = 0 /\ last.nalloc = 0
          /\ wr[last.w].kind = "CBox" /\ wr[last.w].disp = 0
          /\ last.ptr = wr[last.w].ptr
          /\ ( ~misuse /\ last.ptr # NULL ) =>
                mem[last.ptr].st = "live" /\ mem[last.ptr].rel = 0
    /\ ~misuse =>
          \A w \in OfKind("CBox") :
              wr[w].ptr # NULL => mem[wr[w].ptr].rel <= 1

\* C14's case: the view of a CBox over a live malloc block has ended, the
\* block untouched, while a panic unwinds.
C14_Witness ==
    /\ last.op = "view_end"
    /\ ~misuse
    /\ pc = "unwind"
    /\ last.ptr \in MallocAddr
    /\ mem[last.ptr].st = "live"
    /\ mem[last.ptr].rel = 0

\* The operations that only look at a wrapper.
Accessors == {"as_ptr", "deref", "deref_mut", "borrow", "fmt", "eq"}

\* C15: a step of as_ptr, deref, deref_mut, borrow, Display/Debug or
\* equality changes neither the wrappers (the one accessed is live before and
\* after, with the same pointer and the same pending disposal), nor the
\* heap, nor the views, nor the pointers the caller holds; it allocates
\* nothing and disposes nothing; and as_ptr, borrow and deref_mut give the
\* pointer the wrapper holds.
C15_AccessorsChangeNothing ==
    [][ last'.op \in Accessors =>
          /\ wr' = wr /\ mem' = mem /\ view' = view /\ owed' = owed
          /\ Live(last'.w) /\ wr'[last'.w].disp = 0
          /\ last'.ndisp = 0 /\ last'.nalloc = 0
          /\ last'.ptr = wr[last'.w].ptr ]_vars

\* C15's case: as_ptr on a live CSemiBox over a live malloc block returned
\* the block's address.
C15_Witness ==
    /\ last.op = "as_ptr"
    /\ wr[last.w].kind = "CSemiBox"
    /\ Live(last.w)
    /\ last.ptr \in MallocAddr
    /\ mem[last.ptr].st = "live"
    /\ wr[last.w].disp = 0

=============================================================================
